---- MODULE Spec2Model ----
(***************************************************************************)
(* Model of the repository analysis pipeline: RepositoryAnalyzer.analyze   *)
(* (analyzer.py), the five SignalDetector extractors (signals.py), the     *)
(* TierProfile matcher and gap calculator (tier_profiler.py) and the fetch *)
(* outcomes of GitHubFetcher (github_fetcher.py).                          *)
(*                                                                         *)
(* Text is modelled as TLA+ strings and processed character by character.  *)
(* The backtick cannot be written in a TLA+ string, so the apostrophe      *)
(* stands for it: the code fence of a README is written '''.               *)
(***************************************************************************)
EXTENDS Integers, Sequences, FiniteSets, TLC

-----------------------------------------------------------------------------
(* Bounds of the model                                                     *)

MaxTreeLen == 7

MaxReadmePieces == 7

MaxTail == 3

GridStep == 5

-----------------------------------------------------------------------------
(* Python string operations                                                *)

Upper == <<"A","B","C","D","E","F","G","H","I","J","K","L","M",
           "N","O","P","Q","R","S","T","U","V","W","X","Y","Z">>

LowerLetters == <<"a","b","c","d","e","f","g","h","i","j","k","l","m",
                  "n","o","p","q","r","s","t","u","v","w","x","y","z">>

LowerChar(c) ==
  IF \E i \in 1..26 : Upper[i] = c
  THEN LowerLetters[CHOOSE i \in 1..26 : Upper[i] = c]
  ELSE c

RECURSIVE Lower(_)
Lower(s) ==
  IF Len(s) = 0 THEN s
  ELSE IF Len(s) = 1 THEN LowerChar(s)
  ELSE LET h == Len(s) \div 2
       IN  Lower(SubSeq(s, 1, h)) \o Lower(SubSeq(s, h + 1, Len(s)))

\* sub in s
Contains(s, sub) ==
  \E i \in 1..(Len(s) - Len(sub) + 1) : SubSeq(s, i, i + Len(sub) - 1) = sub

\* s.startswith(prefix)
StartsWith(s, prefix) ==
  /\ Len(prefix) <= Len(s)
  /\ SubSeq(s, 1, Len(prefix)) = prefix

IsSpace(c) == c \in {" ", "\n", "\t"}

\* len(s.split()): the number of maximal runs of non-whitespace characters
SplitCount(s) ==
  Cardinality({i \in 1..Len(s) :
                 /\ ~IsSpace(SubSeq(s, i, i))
                 /\ (i = 1 \/ IsSpace(SubSeq(s, i - 1, i - 1)))})

\* s.split("/"): the segments between separators, in order
RECURSIVE SplitSlash(_)
SplitSlash(s) ==
  IF ~Contains(s, "/") THEN <<s>>
  ELSE LET i == CHOOSE j \in 1..Len(s) :
                  /\ SubSeq(s, j, j) = "/"
                  /\ \A k \in 1..(j - 1) : SubSeq(s, k, k) # "/"
       IN  <<SubSeq(s, 1, i - 1)>> \o SplitSlash(SubSeq(s, i + 1, Len(s)))

Min(a, b) == IF a < b THEN a ELSE b

Max(a, b) == IF a > b THEN a ELSE b

RECURSIVE SeqSum(_)
SeqSum(q) == IF q = <<>> THEN 0 ELSE Head(q) + SeqSum(Tail(q))

\* q[:n]
Take(q, n) == SubSeq(q, 1, Min(n, Len(q)))

-----------------------------------------------------------------------------
(* signals.py: SignalDetector                                              *)

\* _extract_folders: the set of first segments of the paths with a separator
ExtractFolders(tree) ==
  {SplitSlash(tree[i].path)[1] :
      i \in {j \in 1..Len(tree) : Len(SplitSlash(tree[j].path)) > 1}}

GoodKeywords == {"src", "tests", "test", "docs", "config", "models", "controllers",
                 "services", "api", "database", "auth", "ui", "components", "views"}

BadKeywords == {"utils", "helpers", "misc", "constants", "functions", "lib", "tools"}

\* a plausible slip: the well-organized rule tried before the cargo-cult rule
StructureScoreGoodFirst(total_folders, good_count, bad_count) ==
  IF total_folders = 0 THEN 5
  ELSE IF good_count >= 3 THEN 18
  ELSE IF bad_count > good_count THEN 8
  ELSE IF good_count >= 1 THEN 12
  ELSE 5

\* the if/elif chain of signal_structure
StructureScore(total_folders, good_count, bad_count) ==
  IF total_folders = 0 THEN 5
  ELSE IF bad_count > good_count THEN 8
  ELSE IF good_count >= 3 THEN 18
  ELSE IF good_count >= 1 THEN 12
  ELSE 5

SignalStructure(tree) ==
  LET folder_names == ExtractFolders(tree)
      good_count == Cardinality({f \in folder_names : Lower(f) \in GoodKeywords})
      bad_count == Cardinality({f \in folder_names : Lower(f) \in BadKeywords})
      total_folders == Cardinality(folder_names)
      score == StructureScore(total_folders, good_count, bad_count)
  IN  <<score, IF folder_names # {} THEN "Folders" ELSE "Flat structure">>

Sections == <<{"overview", "about", "description", "what is"},
              {"setup", "installation", "install", "getting started"},
              {"usage", "how to use", "tutorial", "examples"},
              {"architecture", "design", "structure"},
              {"contributing", "contribution", "contribute"}>>

ReadmeLenThreshold == 500

\* a non-empty Python string is truthy
Truthy(s) == Len(s) > 0

Fence == "'''"

SignalDocumentation(readme) ==
  IF ~Truthy(readme) THEN <<0, "No README found">>
  ELSE LET readme_lower == Lower(readme)
           found_sections ==
             Cardinality({g \in 1..Len(Sections) :
                            \E kw \in Sections[g] : Contains(readme_lower, kw)})
           has_examples == Fence
           has_structure == Len(readme) > ReadmeLenThreshold
           score == Min(20, (found_sections * 3)
                              + (IF Truthy(has_examples) THEN 3 ELSE 0)
                              + (IF has_structure THEN 2 ELSE 0))
       IN  <<score, "Found sections">>

TestCountThreshold == 5

\* a plausible slip: the markers tried before the check for test files
TestScoreMarkersFirst(test_count, coverage, config, unit, integration) ==
  IF coverage \/ config THEN <<18, "test files with coverage config">>
  ELSE IF test_count = 0 THEN <<0, "No tests found">>
  ELSE IF unit > 0 /\ integration > 0 THEN <<15, "Unit + Integration tests">>
  ELSE IF test_count > TestCountThreshold THEN <<12, "test files">>
  ELSE <<6, "Basic tests">>

\* the if/elif chain of signal_tests
TestScore(test_count, coverage, config, unit, integration) ==
  IF test_count = 0 THEN <<0, "No tests found">>
  ELSE IF coverage \/ config THEN <<18, "test files with coverage config">>
  ELSE IF unit > 0 /\ integration > 0 THEN <<15, "Unit + Integration tests">>
  ELSE IF test_count > TestCountThreshold THEN <<12, "test files">>
  ELSE <<6, "Basic tests">>

SignalTests(tree) ==
  LET all_paths == [i \in 1..Len(tree) |-> tree[i].path]
      test_files == SelectSeq(all_paths, LAMBDA p : Contains(Lower(p), "test"))
      unit == Len(SelectSeq(test_files,
                    LAMBDA f : Contains(Lower(f), "unit") \/ Contains(f, "_test")))
      integration == Len(SelectSeq(test_files,
                    LAMBDA f : Contains(Lower(f), "integration")
                                 \/ Contains(Lower(f), "e2e")))
      coverage == \E i \in 1..Len(all_paths) :
                     \/ Contains(Lower(all_paths[i]), "coverage")
                     \/ Contains(all_paths[i], ".coveragerc")
      config == \E i \in 1..Len(all_paths) :
                     \/ Contains(all_paths[i], "pytest.ini")
                     \/ Contains(all_paths[i], "jest.config")
                     \/ Contains(all_paths[i], "vitest")
      test_count == Len(test_files)
  IN  TestScore(test_count, coverage, config, unit, integration)

ConventionalPrefixes == {"feat:", "fix:", "docs:", "style:", "test:", "refactor:", "chore:"}

QualityKeywords == {"add", "fix", "refactor", "improve", "update", "implement", "feature"}

CommitCap == 50

IsConventional(msg) == \E c \in ConventionalPrefixes : StartsWith(msg, c)

IsDescriptive(msg) ==
  SplitCount(msg) > 3 /\ \E kw \in QualityKeywords : Contains(msg, kw)

\* a plausible slip: the ratio taken over the inspected commits only
QualityScoreOverInspected(conventional_count, descriptive_count, total) ==
  Min(20, ((conventional_count + descriptive_count) * 20)
             \div Max(Min(total, CommitCap), 1))

\* a plausible slip: the score not capped
QualityScoreUncapped(conventional_count, descriptive_count, total) ==
  ((conventional_count + descriptive_count) * 20) \div Max(total, 1)

\* min(20, int(quality_ratio * 20)), quality_ratio the quotient of the two
\* counts by max(total, 1): the floor of the exact value
QualityScore(conventional_count, descriptive_count, total) ==
  Min(20, ((conventional_count + descriptive_count) * 20) \div Max(total, 1))

SignalCommits(commitList) ==
  IF Len(commitList) = 0 THEN <<0, "No commits">>
  ELSE LET inspected == Take(commitList, CommitCap)
           conventional_count ==
             Len(SelectSeq(inspected, LAMBDA c : IsConventional(Lower(c.message))))
           descriptive_count ==
             Len(SelectSeq(inspected, LAMBDA c : IsDescriptive(Lower(c.message))))
       IN  <<QualityScore(conventional_count, descriptive_count, Len(commitList)),
             "Conventional, Descriptive">>

DepFileNames == {"requirements.txt", "package.json", "Gemfile", "pom.xml", "go.mod"}

LockFileNames == {"package-lock.json", "yarn.lock", "Pipfile.lock", "poetry.lock"}

SignalDependencies(tree) ==
  LET all_paths == [i \in 1..Len(tree) |-> tree[i].path]
      dep_files == SelectSeq(all_paths, LAMBDA p : \E df \in DepFileNames : Contains(p, df))
      lock_files == SelectSeq(all_paths, LAMBDA p : \E lf \in LockFileNames : Contains(p, lf))
  IN  IF Len(dep_files) = 0 THEN <<0, "No dependency files">>
      ELSE IF Len(lock_files) > 0 THEN <<18, "Dependency files + lock files present">>
      ELSE IF Len(dep_files) > 1 THEN <<14, "dependency files">>
      ELSE <<10, "Basic dependency management">>

Dims == <<"structure", "documentation", "tests", "commits", "dependencies">>

DimSet == {Dims[i] : i \in 1..Len(Dims)}

GetAllSignals(tree, readmeText, commitList) ==
  [structure |-> SignalStructure(tree),
   documentation |-> SignalDocumentation(readmeText),
   tests |-> SignalTests(tree),
   commits |-> SignalCommits(commitList),
   dependencies |-> SignalDependencies(tree)]

-----------------------------------------------------------------------------
(* tier_profiler.py: TierProfile                                           *)

TIER_PROFILES ==
  [beginner |-> [structure |-> 5, documentation |-> 3, tests |-> 0,
                 commits |-> 4, dependencies |-> 2],
   intermediate |-> [structure |-> 14, documentation |-> 12, tests |-> 10,
                     commits |-> 12, dependencies |-> 12],
   advanced |-> [structure |-> 18, documentation |-> 18, tests |-> 18,
                 commits |-> 16, dependencies |-> 18]]

\* iteration order of the TIER_PROFILES dictionary
TierNames == <<"beginner", "intermediate", "advanced">>

ComputeProfileVector(sigs) ==
  [structure |-> sigs["structure"][1],
   documentation |-> sigs["documentation"][1],
   tests |-> sigs["tests"][1],
   commits |-> sigs["commits"][1],
   dependencies |-> sigs["dependencies"][1]]

Dot(vec1, vec2) == SeqSum([i \in 1..Len(Dims) |-> vec1[Dims[i]] * vec2[Dims[i]]])

\* sum(v**2 for v in vec.values()): the square of the magnitude
MagSq(vec) == SeqSum([i \in 1..Len(Dims) |-> vec[Dims[i]] * vec[Dims[i]]])

\* a plausible slip: the magnitudes added where they are multiplied
CosineSimilarityAddedMagnitudes(vec1, vec2) ==
  LET dot_product == Dot(vec1, vec2)
      mag1 == MagSq(vec1)
      mag2 == MagSq(vec2)
  IN  IF mag1 = 0 \/ mag2 = 0 THEN [dot |-> 0, mags |-> 1]
      ELSE [dot |-> dot_product, mags |-> mag1 + mag2]

\* A similarity is kept exactly, as the pair (dot, mags) standing for the
\* number dot / sqrt(mags); the number 0 is (0, 1) and the number -1 is (-1, 1).
CosineSimilarity(vec1, vec2) ==
  LET dot_product == Dot(vec1, vec2)
      mag1 == MagSq(vec1)
      mag2 == MagSq(vec2)
  IN  IF mag1 = 0 \/ mag2 = 0 THEN [dot |-> 0, mags |-> 1]
      ELSE [dot |-> dot_product, mags |-> mag1 * mag2]

\* p1/q1 > p2/q2 for non-negative p and positive q, without forming products
RECURSIVE FracGT(_, _, _, _)
FracGT(p1, q1, p2, q2) ==
  LET i1 == p1 \div q1
      i2 == p2 \div q2
      r1 == p1 % q1
      r2 == p2 % q2
  IN  IF i1 # i2 THEN i1 > i2
      ELSE IF r1 = 0 THEN FALSE
      ELSE IF r2 = 0 THEN TRUE
      ELSE FracGT(q2, r2, q1, r1)

\* a > b on similarities
SimGT(a, b) ==
  IF a.dot < 0 \/ b.dot < 0
  THEN IF a.dot >= 0 THEN TRUE
       ELSE IF b.dot >= 0 THEN FALSE
       ELSE FracGT(b.dot * b.dot, b.mags, a.dot * a.dot, a.mags)
  ELSE FracGT(a.dot * a.dot, a.mags, b.dot * b.dot, b.mags)

\* a plausible slip: >= for >
NotWorseThanBest(similarity, best_similarity) == ~SimGT(best_similarity, similarity)

\* the update of (best_tier, best_similarity) by one iteration of the loop
BetterThanBest(similarity, best_similarity) == SimGT(similarity, best_similarity)

RECURSIVE MatchLoop(_, _, _)
MatchLoop(profile, i, best) ==
  IF i > Len(TierNames) THEN best
  ELSE LET t == TierNames[i]
           sim == CosineSimilarity(profile, TIER_PROFILES[t])
       IN  MatchLoop(profile, i + 1,
                     IF BetterThanBest(sim, best.best_similarity)
                     THEN [best_tier |-> t, best_similarity |-> sim]
                     ELSE best)

MatchTier(profile) ==
  MatchLoop(profile, 1, [best_tier |-> "none", best_similarity |-> [dot |-> -1, mags |-> 1]])

\* tier_order.index(current_tier), counted from 0
TierIndex(t) == (CHOOSE i \in 1..Len(TierNames) : TierNames[i] = t) - 1

\* a plausible slip: the index wraps round after the last tier
NextTierWrapping(current_tier) ==
  TierNames[((TierIndex(current_tier) + 1) % Len(TierNames)) + 1]

NextTier(current_tier) ==
  LET current_idx == TierIndex(current_tier)
  IN  IF current_idx = 2 THEN "advanced" ELSE TierNames[current_idx + 2]

\* a plausible slip: the shortfall not floored at 0
GapSigned(reference, value) == reference - value

Gap(reference, value) == Max(0, reference - value)

ComputeGaps(profile, current_tier) ==
  LET next_profile == TIER_PROFILES[NextTier(current_tier)]
  IN  [d \in DimSet |-> Gap(next_profile[d], profile[d])]

-----------------------------------------------------------------------------
(* analyzer.py: RepositoryAnalyzer                                         *)

DisplayRoadmap ==
  [structure |-> "Reorganize into semantic folders",
   documentation |-> "Add comprehensive README",
   tests |-> "Implement test strategy",
   commits |-> "Use conventional commits",
   dependencies |-> "Add lock files"]

HighItem(d) == "HIGH PRIORITY: " \o DisplayRoadmap[d]

MediumItem(d) == "UP: " \o DisplayRoadmap[d]

AdvancedItems == <<"Add GitHub Actions for CI/CD",
                   "Set up issue templates and project boards",
                   "Add code coverage badges">>

FallbackItem == "Excellent repository!"

HighGap == 8

MediumGap == 4

BonusScore == 80

RoadmapLimit == 5

ProfileSum(profile) == SeqSum([i \in 1..Len(Dims) |-> profile[Dims[i]]])

IsHigh(gap) == gap > HighGap

IsMedium(gap) == MediumGap <= gap /\ gap <= HighGap

\* a plausible slip: the list returned whole
GenerateRoadmapUnlimited(gapVec, profile) ==
  LET highDims == SelectSeq(Dims, LAMBDA d : IsHigh(gapVec[d]))
      mediumDims == SelectSeq(Dims, LAMBDA d : IsMedium(gapVec[d]))
      high == [i \in 1..Len(highDims) |-> HighItem(highDims[i])]
      medium == [i \in 1..Len(mediumDims) |-> MediumItem(mediumDims[i])]
      bonus == IF ProfileSum(profile) > BonusScore THEN AdvancedItems ELSE <<>>
      built == high \o medium \o bonus
  IN  IF built = <<>> THEN <<FallbackItem>> ELSE built

GenerateRoadmap(gapVec, profile) ==
  LET highDims == SelectSeq(Dims, LAMBDA d : IsHigh(gapVec[d]))
      mediumDims == SelectSeq(Dims, LAMBDA d : IsMedium(gapVec[d]))
      high == [i \in 1..Len(highDims) |-> HighItem(highDims[i])]
      medium == [i \in 1..Len(mediumDims) |-> MediumItem(mediumDims[i])]
      bonus == IF ProfileSum(profile) > BonusScore THEN AdvancedItems ELSE <<>>
      built == high \o medium \o bonus
      roadmapList == IF built = <<>> THEN <<FallbackItem>> ELSE built
  IN  Take(roadmapList, RoadmapLimit)

\* a plausible slip: the descending order got by reversing the ascending
\* one, which reverses equal scores too
BeforeTiesReversed(profile, reverse, x, y) ==
  IF reverse THEN profile[x] >= profile[y] ELSE profile[x] < profile[y]

\* x sorts before y: by value, descending when reverse
Before(profile, reverse, x, y) ==
  IF reverse THEN profile[x] > profile[y] ELSE profile[x] < profile[y]

\* stable insertion of x into the sorted sequence q
RECURSIVE InsertSorted(_, _, _, _)
InsertSorted(q, x, profile, reverse) ==
  IF q = <<>> THEN <<x>>
  ELSE IF Before(profile, reverse, x, Head(q)) THEN <<x>> \o q
  ELSE <<Head(q)>> \o InsertSorted(Tail(q), x, profile, reverse)

\* sorted(profile.items(), key=value, reverse=reverse): a stable sort
RECURSIVE SortDims(_, _, _)
SortDims(q, profile, reverse) ==
  IF q = <<>> THEN <<>>
  ELSE InsertSorted(SortDims(SubSeq(q, 1, Len(q) - 1), profile, reverse),
                    q[Len(q)], profile, reverse)

Strengths(profile) == Take(SortDims(Dims, profile, TRUE), 2)

Weaknesses(profile) == Take(SortDims(Dims, profile, FALSE), 2)

DisplayNames ==
  [structure |-> "Project Structure",
   documentation |-> "Documentation",
   tests |-> "Testing",
   commits |-> "Commit Quality",
   dependencies |-> "Dependency Management"]

\* ", ".join(names)
RECURSIVE JoinComma(_)
JoinComma(names) ==
  IF names = <<>> THEN ""
  ELSE IF Len(names) = 1 THEN names[1]
  ELSE names[1] \o ", " \o JoinComma(Tail(names))

\* the summary sentence; every key of a profile has a display name
Summary(strong, weak) ==
  LET strength_names == [i \in 1..Len(strong) |-> DisplayNames[strong[i]]]
      weakness_names == [i \in 1..Len(weak) |-> DisplayNames[weak[i]]]
  IN  "Strong in " \o JoinComma(strength_names)
        \o ". Needs improvement in " \o JoinComma(weakness_names) \o "."

ClampScore(score) == Min(100, Max(0, score))

-----------------------------------------------------------------------------
(* github_fetcher.py: the outcome of one remote call                       *)

FetchOrder == <<"repo_info", "file_tree", "readme", "commits", "branches", "languages">>

FetchNames == {FetchOrder[i] : i \in 1..Len(FetchOrder)}

FetchOutcomes == {"ok", "http_error", "network_error", "timeout"}

\* a plausible slip: no status check after any call
RaisesOnTransportOnly(f, o) == o \in {"network_error", "timeout"}

\* requests.get raises on a network error and on a timeout; raise_for_status
\* raises on a non-2xx status, and get_readme does not call it
Raises(f, o) ==
  \/ o \in {"network_error", "timeout"}
  \/ o = "http_error" /\ f # "readme"

-----------------------------------------------------------------------------
(* Inputs                                                                  *)

RECURSIVE Pad(_)
Pad(n) == IF n = 0 THEN "" ELSE IF n = 1 THEN "x"
          ELSE Pad(n \div 2) \o Pad(n - (n \div 2))

RECURSIVE Concat(_)
Concat(q) == IF q = <<>> THEN "" ELSE Head(q) \o Concat(Tail(q))

RECURSIVE Repeat(_, _)
Repeat(x, n) == IF n = 0 THEN <<>> ELSE <<x>> \o Repeat(x, n - 1)

\* the sub-sequences of pool with at most n elements, in the order of pool
SubPools(pool, n) ==
  {SelectSeq([i \in 1..Len(pool) |-> i], LAMBDA i : i \in S) :
     S \in {T \in SUBSET (1..Len(pool)) : Cardinality(T) <= n}}

TreesOf(pool) ==
  {[k \in 1..Len(ix) |-> [path |-> pool[ix[k]]]] : ix \in SubPools(pool, MaxTreeLen)}

TestPool == <<"tests/test_app.py", "test/a.py", "Test/b.py", "latest.txt",
              "src/CALC_TEST.PY", "src/attest.py", "tests/Unit/calc.py",
              "src/calc_test.py", "tests/integration/api.py", "tests/E2E/run.py",
              "unit/e2e.py", "jest.config.js", ".coveragerc", "pytest.ini",
              "src/main.py">>

StructPool == <<"README.md", "src/main.py", "src/util/deep.py", "tests/test_app.py",
                "docs/guide.md", "Config/settings.yml", "utils/x.py",
                "helpers/y.py", "Lib/z.py", "misc/w.py", "vendor/v.py">>

PipelinePool == <<"src/main.py", "tests/test_app.py", "docs/guide.md", "utils/x.py",
                  "pytest.ini", "requirements.txt", "package.json", "poetry.lock">>

ReadmePieces == <<"About ", "INSTALL ", "usage ", "Design ", "contribute ",
                  "hello ", Fence, Pad(ReadmeLenThreshold)>>

Readmes ==
  {Concat([k \in 1..Len(ix) |-> ReadmePieces[ix[k]]]) :
     ix \in SubPools(ReadmePieces, MaxReadmePieces)}

PipelineReadmes ==
  {"", "hello", Concat(SubSeq(ReadmePieces, 1, 5)), Concat(ReadmePieces)}

Messages == {"feat: add login", "Fix: handle the null case now", "update",
             "Improve the build script speed", "feature: x", "wip"}

HeadCounts == {0, 1, 3, 10, CommitCap - 1, CommitCap}

DoubleMessage == "Fix: handle the null case now"

CommitLists ==
  {Repeat([message |-> m1], n1) \o Repeat([message |-> m2], n2) :
     m1 \in Messages, m2 \in Messages, n1 \in HeadCounts, n2 \in 0..MaxTail}

PipelineCommits ==
  {<<>>, Repeat([message |-> "feat: add login"], 10),
   Repeat([message |-> DoubleMessage], 2),
   Repeat([message |-> "feat: add login"], CommitCap) \o Repeat([message |-> "wip"], 2),
   Repeat([message |-> "wip"], 3) \o Repeat([message |-> DoubleMessage], 1)}

MaxScore == 20

\* the scores of one dimension: a grid and the three reference values
GridVals(d) ==
  {v \in 0..MaxScore : v % GridStep = 0}
     \cup {TIER_PROFILES[TierNames[i]][d] : i \in 1..Len(TierNames)}

Profiles ==
  [structure : GridVals("structure"), documentation : GridVals("documentation"),
   tests : GridVals("tests"), commits : GridVals("commits"),
   dependencies : GridVals("dependencies")]

GapVals == {0, MediumGap - 1, MediumGap, HighGap, HighGap + 1}

RoadmapProfiles == {[d \in DimSet |-> v] : v \in {0, 16, 17, MaxScore}}

-----------------------------------------------------------------------------
(* State                                                                   *)

VARIABLES
  pc,              \* the position in analyze()
  outcome,         \* the outcome of each remote call made so far
  fetched,         \* the remote calls made, in order
  file_tree, readme_content, readme, commits,
  signals, profile_vector, tier, similarity, next_tier, gaps,
  strengths, weaknesses, roadmap,
  result           \* the record returned by analyze()

vars == <<pc, outcome, fetched, file_tree, readme_content, readme, commits,
          signals, profile_vector, tier, similarity, next_tier, gaps,
          strengths, weaknesses, roadmap, result>>

fetchVars == <<file_tree, readme_content, readme, commits>>

scoreVars == <<signals, profile_vector, tier, similarity, next_tier, gaps,
               strengths, weaknesses, roadmap>>

NoSignals == [d \in DimSet |-> <<0, "">>]

NoVector == [d \in DimSet |-> 0]

NoSimilarity == [dot |-> -1, mags |-> 1]

NoResult == [status |-> "none"]

\* everything but pc and the inputs, before any step of analyze()
Fresh ==
  /\ outcome = [f \in FetchNames |-> "pending"]
  /\ fetched = <<>>
  /\ signals = NoSignals
  /\ profile_vector = NoVector
  /\ tier = "none"
  /\ similarity = NoSimilarity
  /\ next_tier = "none"
  /\ gaps = NoVector
  /\ strengths = <<>>
  /\ weaknesses = <<>>
  /\ roadmap = <<>>
  /\ result = NoResult

Init ==
  /\ pc = "repo_info"
  /\ file_tree = <<>>
  /\ readme_content = ""
  /\ readme = ""
  /\ commits = <<>>
  /\ Fresh

-----------------------------------------------------------------------------
(* analyze(): the six fetches                                              *)

\* the except clause of analyze()
ErrorResult == [status |-> "error", error |-> "Analysis failed"]

\* one remote call: it raises into the except clause or analyze() goes on
Call(f, o, next) ==
  /\ outcome' = [outcome EXCEPT ![f] = o]
  /\ fetched' = Append(fetched, f)
  /\ IF Raises(f, o)
     THEN /\ pc' = "done"
          /\ result' = ErrorResult
     ELSE /\ pc' = next
          /\ result' = result

FetchRepoInfo ==
  /\ pc = "repo_info"
  /\ \E o \in FetchOutcomes : Call("repo_info", o, "file_tree")
  /\ UNCHANGED <<fetchVars, scoreVars>>

FetchFileTree ==
  /\ pc = "file_tree"
  /\ \E o \in FetchOutcomes :
       /\ Call("file_tree", o, "readme")
       /\ IF o = "ok"
          THEN \E t \in TreesOf(PipelinePool) : file_tree' = t
          ELSE file_tree' = file_tree
  /\ UNCHANGED <<readme_content, readme, commits, scoreVars>>

\* get_readme returns the content on status 200 and "" on any other status
FetchReadme ==
  /\ pc = "readme"
  /\ \E o \in FetchOutcomes :
       /\ Call("readme", o, "commits")
       /\ IF o = "ok"
          THEN \E c \in {"", "content"} : readme_content' = c
          ELSE readme_content' = ""
  /\ UNCHANGED <<file_tree, readme, commits, scoreVars>>

FetchCommits ==
  /\ pc = "commits"
  /\ \E o \in FetchOutcomes :
       /\ Call("commits", o, "branches")
       /\ IF o = "ok"
          THEN \E c \in PipelineCommits : commits' = c
          ELSE commits' = commits
  /\ UNCHANGED <<file_tree, readme_content, readme, scoreVars>>

FetchBranches ==
  /\ pc = "branches"
  /\ \E o \in FetchOutcomes : Call("branches", o, "languages")
  /\ UNCHANGED <<fetchVars, scoreVars>>

FetchLanguages ==
  /\ pc = "languages"
  /\ \E o \in FetchOutcomes : Call("languages", o, "decode")
  /\ UNCHANGED <<fetchVars, scoreVars>>

\* the README text is "" without content; with content it is the decoded
\* text, the raw content or its first 2000 characters: an input here
DecodeReadme ==
  /\ pc = "decode"
  /\ IF Truthy(readme_content)
     THEN \E r \in PipelineReadmes : readme' = r
     ELSE readme' = ""
  /\ pc' = "signals"
  /\ UNCHANGED <<outcome, fetched, file_tree, readme_content, commits, scoreVars, result>>

-----------------------------------------------------------------------------
(* analyze(): the scoring stage                                            *)

DetectSignals ==
  /\ pc = "signals"
  /\ signals' = GetAllSignals(file_tree, readme, commits)
  /\ pc' = "profile"
  /\ UNCHANGED <<outcome, fetched, fetchVars, profile_vector, tier, similarity,
                 next_tier, gaps, strengths, weaknesses, roadmap, result>>

BuildProfile ==
  /\ pc = "profile"
  /\ profile_vector' = ComputeProfileVector(signals)
  /\ pc' = "tier"
  /\ UNCHANGED <<outcome, fetched, fetchVars, signals, tier, similarity,
                 next_tier, gaps, strengths, weaknesses, roadmap, result>>

MatchTierStep ==
  /\ pc = "tier"
  /\ LET m == MatchTier(profile_vector)
     IN  /\ tier' = m.best_tier
         /\ similarity' = m.best_similarity
  /\ pc' = "gaps"
  /\ UNCHANGED <<outcome, fetched, fetchVars, signals, profile_vector,
                 next_tier, gaps, strengths, weaknesses, roadmap, result>>

ComputeGapsStep ==
  /\ pc = "gaps"
  /\ next_tier' = NextTier(tier)
  /\ gaps' = ComputeGaps(profile_vector, tier)
  /\ pc' = "summary"
  /\ UNCHANGED <<outcome, fetched, fetchVars, signals, profile_vector, tier,
                 similarity, strengths, weaknesses, roadmap, result>>

Summarise ==
  /\ pc = "summary"
  /\ strengths' = Strengths(profile_vector)
  /\ weaknesses' = Weaknesses(profile_vector)
  /\ pc' = "roadmap"
  /\ UNCHANGED <<outcome, fetched, fetchVars, signals, profile_vector, tier,
                 similarity, next_tier, gaps, roadmap, result>>

RoadmapStep ==
  /\ pc = "roadmap"
  /\ roadmap' = GenerateRoadmap(gaps, profile_vector)
  /\ pc' = "return"
  /\ UNCHANGED <<outcome, fetched, fetchVars, signals, profile_vector, tier,
                 similarity, next_tier, gaps, strengths, weaknesses, result>>

Return ==
  /\ pc = "return"
  /\ result' = [status |-> "success",
                score |-> ClampScore(ProfileSum(profile_vector)),
                tier |-> tier,
                profile |-> profile_vector,
                gaps |-> gaps,
                signals |-> [d \in DimSet |-> signals[d][2]],
                strengths |-> strengths,
                weaknesses |-> weaknesses,
                summary |-> Summary(strengths, weaknesses),
                roadmap |-> roadmap,
                commit_count |-> Len(commits)]
  /\ pc' = "done"
  /\ UNCHANGED <<outcome, fetched, fetchVars, scoreVars>>

Next ==
  \/ FetchRepoInfo
  \/ FetchFileTree
  \/ FetchReadme
  \/ FetchCommits
  \/ FetchBranches
  \/ FetchLanguages
  \/ DecodeReadme
  \/ DetectSignals
  \/ BuildProfile
  \/ MatchTierStep
  \/ ComputeGapsStep
  \/ Summarise
  \/ RoadmapStep
  \/ Return

Spec == Init /\ [][Next]_vars

-----------------------------------------------------------------------------
(* The extractors and the tier operations on their own inputs              *)

InitDoc ==
  /\ pc = "signals"
  /\ file_tree = <<>>
  /\ readme_content = ""
  /\ readme \in Readmes
  /\ commits = <<>>
  /\ Fresh

SpecDoc == InitDoc /\ [][DetectSignals]_vars

InitTests ==
  /\ pc = "signals"
  /\ file_tree \in TreesOf(TestPool)
  /\ readme_content = ""
  /\ readme = ""
  /\ commits = <<>>
  /\ Fresh

SpecTests == InitTests /\ [][DetectSignals]_vars

InitStructure ==
  /\ pc = "signals"
  /\ file_tree \in TreesOf(StructPool)
  /\ readme_content = ""
  /\ readme = ""
  /\ commits = <<>>
  /\ Fresh

SpecStructure == InitStructure /\ [][DetectSignals]_vars

InitCommits ==
  /\ pc = "signals"
  /\ file_tree = <<>>
  /\ readme_content = ""
  /\ readme = ""
  /\ commits \in CommitLists
  /\ Fresh

SpecCommits == InitCommits /\ [][DetectSignals]_vars

\* a profile vector as match_tier receives it
InitTier ==
  /\ pc = "tier"
  /\ file_tree = <<>>
  /\ readme_content = ""
  /\ readme = ""
  /\ commits = <<>>
  /\ outcome = [f \in FetchNames |-> "pending"]
  /\ fetched = <<>>
  /\ signals = NoSignals
  /\ profile_vector \in Profiles
  /\ tier = "none"
  /\ similarity = NoSimilarity
  /\ next_tier = "none"
  /\ gaps = NoVector
  /\ strengths = <<>>
  /\ weaknesses = <<>>
  /\ roadmap = <<>>
  /\ result = NoResult

NextTierSpec == MatchTierStep \/ ComputeGapsStep

SpecTier == InitTier /\ [][NextTierSpec]_vars

\* a profile vector and any current tier, as compute_gaps receives them
InitGaps ==
  /\ pc = "gaps"
  /\ file_tree = <<>>
  /\ readme_content = ""
  /\ readme = ""
  /\ commits = <<>>
  /\ outcome = [f \in FetchNames |-> "pending"]
  /\ fetched = <<>>
  /\ signals = NoSignals
  /\ profile_vector \in Profiles
  /\ tier \in {TierNames[i] : i \in 1..Len(TierNames)}
  /\ similarity = NoSimilarity
  /\ next_tier = "none"
  /\ gaps = NoVector
  /\ strengths = <<>>
  /\ weaknesses = <<>>
  /\ roadmap = <<>>
  /\ result = NoResult

SpecGaps == InitGaps /\ [][ComputeGapsStep]_vars

\* a gap vector and a profile, as _generate_roadmap receives them
InitRoadmap ==
  /\ pc = "roadmap"
  /\ file_tree = <<>>
  /\ readme_content = ""
  /\ readme = ""
  /\ commits = <<>>
  /\ outcome = [f \in FetchNames |-> "pending"]
  /\ fetched = <<>>
  /\ signals = NoSignals
  /\ profile_vector \in RoadmapProfiles
  /\ tier = "none"
  /\ similarity = NoSimilarity
  /\ next_tier = "none"
  /\ gaps \in [DimSet -> GapVals]
  /\ strengths = <<>>
  /\ weaknesses = <<>>
  /\ roadmap = <<>>
  /\ result = NoResult

SpecRoadmap == InitRoadmap /\ [][RoadmapStep]_vars

\* a profile vector as the summary of analyze() receives it
InitSummary ==
  /\ pc = "summary"
  /\ file_tree = <<>>
  /\ readme_content = ""
  /\ readme = ""
  /\ commits = <<>>
  /\ outcome = [f \in FetchNames |-> "pending"]
  /\ fetched = <<>>
  /\ signals = NoSignals
  /\ profile_vector \in Profiles
  /\ tier = "none"
  /\ similarity = NoSimilarity
  /\ next_tier = "none"
  /\ gaps = NoVector
  /\ strengths = <<>>
  /\ weaknesses = <<>>
  /\ roadmap = <<>>
  /\ result = NoResult

NextSummary == Summarise \/ RoadmapStep \/ Return

SpecSummary == InitSummary /\ [][NextSummary]_vars

-----------------------------------------------------------------------------
(* Properties                                                              *)

TierSet == {TierNames[i] : i \in 1..Len(TierNames)}

AfterSignals == pc \in {"profile", "tier", "gaps", "summary", "roadmap", "return"}
                  \/ (pc = "done" /\ result.status = "success")

AbortedWithErrorOnly ==
  /\ pc = "done"
  /\ result = [status |-> "error", error |-> "Analysis failed"]
  /\ signals = NoSignals
  /\ profile_vector = NoVector
  /\ roadmap = <<>>

FetchesInOrder == fetched = SubSeq(FetchOrder, 1, Len(fetched))

\* C1 (as stated): the six fetches are made in the order repo info, file
\* tree, README, commits, branches, languages, and once any fetch has not
\* succeeded (network error, non-2xx status or timeout) analyze() has
\* returned the error record, with no scoring result and never with status
\* "success".
C1_AnyFailedFetchAborts ==
  /\ FetchesInOrder
  /\ (\E f \in FetchNames : outcome[f] \in {"http_error", "network_error", "timeout"})
        => AbortedWithErrorOnly

\* C1 (amended): the six fetches are made in that order; once a fetch has
\* met a network error or a timeout, or a fetch other than the README fetch
\* a non-2xx status, analyze() has returned the error record with no scoring
\* result, and it returns "success" only if no such failure happened; a
\* non-2xx status of the README fetch leaves the README empty and does not
\* abort the analysis.
C1_RaisedFetchAborts ==
  /\ FetchesInOrder
  /\ (\E f \in FetchNames :
         \/ outcome[f] \in {"network_error", "timeout"}
         \/ outcome[f] = "http_error" /\ f # "readme")
        => AbortedWithErrorOnly
  /\ result.status = "success" =>
        \A f \in FetchNames :
           outcome[f] = "ok" \/ (f = "readme" /\ outcome[f] = "http_error")
  /\ (outcome["readme"] = "http_error") =>
        /\ readme_content = "" /\ readme = ""
        /\ Len(fetched) = 3 => pc = "commits" /\ result.status = "none"

\* a README fetch with a non-2xx status was passed over and a later fetch
\* failed and aborted the analysis
C1_Witness ==
  /\ outcome["readme"] = "http_error"
  /\ outcome["branches"] = "http_error"
  /\ fetched = SubSeq(FetchOrder, 1, 5)
  /\ result.status = "error"

FoundSections(text) ==
  Cardinality({g \in 1..Len(Sections) :
                 \E kw \in Sections[g] : Contains(Lower(text), kw)})

\* C2: signal_documentation scores 0 for the empty README and otherwise
\* min(20, 3*foundSections + 3*hasCodeBlock + 2*hasSubstantiveLength), where
\* hasCodeBlock is 1 only if the README contains the code fence and
\* hasSubstantiveLength is 1 only if it is longer than 500 characters.
C2_DocumentationScore ==
  pc = "profile" =>
    signals["documentation"][1] =
      IF readme = "" THEN 0
      ELSE Min(20, 3 * FoundSections(readme)
                     + (IF Contains(readme, Fence) THEN 3 ELSE 0)
                     + (IF Len(readme) > 500 THEN 2 ELSE 0))

Sim(t) == CosineSimilarity(profile_vector, TIER_PROFILES[t])

\* C3: match_tier returns one of the three tiers, its similarity to the
\* profile is the greatest of the three, every tier earlier in the order
\* beginner, intermediate, advanced has a strictly smaller similarity, and
\* the all-zero profile gets beginner with similarity 0.
C3_MatchTierIsFirstMaximum ==
  pc = "gaps" =>
    /\ tier \in TierSet
    /\ similarity = Sim(tier)
    /\ \A t \in TierSet : ~SimGT(Sim(t), similarity)
    /\ \A i \in 1..Len(TierNames) :
          i < TierIndex(tier) + 1 => SimGT(similarity, Sim(TierNames[i]))
    /\ (\A d \in DimSet : profile_vector[d] = 0) =>
          tier = "beginner" /\ similarity.dot = 0

\* the all-zero profile, where the three similarities tie, was matched
C3_Witness ==
  /\ pc = "gaps"
  /\ \A d \in DimSet : profile_vector[d] = 0
  /\ tier = "beginner"
  /\ similarity.dot = 0

NextRef == IF tier = "beginner" THEN TIER_PROFILES["intermediate"]
           ELSE TIER_PROFILES["advanced"]

\* C4: compute_gaps returns for each dimension max(0, nextRef[dim] -
\* profile[dim]), nextRef being the intermediate reference for the current
\* tier beginner and the advanced reference otherwise; no gap is negative
\* and the advanced reference has all-zero gaps against advanced.
C4_GapsAreShortfalls ==
  pc = "summary" =>
    /\ DOMAIN gaps = DimSet
    /\ \A d \in DimSet :
          /\ gaps[d] >= 0
          /\ gaps[d] = IF NextRef[d] > profile_vector[d]
                       THEN NextRef[d] - profile_vector[d] ELSE 0
    /\ (tier = "advanced" /\ profile_vector = TIER_PROFILES["advanced"])
          => \A d \in DimSet : gaps[d] = 0

\* gaps were computed for a profile above the next reference in one
\* dimension and below it in another
C4_Witness ==
  /\ pc = "summary"
  /\ tier = "intermediate"
  /\ profile_vector["documentation"] = 18
  /\ gaps["documentation"] = 0
  /\ profile_vector["tests"] = 0
  /\ gaps["tests"] = 18

\* C5 (as stated): when the current tier is advanced the next tier is
\* advanced and the gap vector is zero in all five dimensions.
C5_AdvancedGapsAllZero ==
  (pc = "summary" /\ tier = "advanced") =>
    /\ next_tier = "advanced"
    /\ \A d \in DimSet : gaps[d] = 0

\* C5 (amended): when the current tier is advanced the next tier is
\* advanced, each gap is the shortfall of the profile below the advanced
\* reference, and the gap vector is zero in all five dimensions exactly when
\* no dimension of the profile is below the advanced reference.
C5_AdvancedGapsAgainstAdvanced ==
  (pc = "summary" /\ tier = "advanced") =>
    /\ next_tier = "advanced"
    /\ \A d \in DimSet :
          gaps[d] = 0 <=> profile_vector[d] >= TIER_PROFILES["advanced"][d]
    /\ \A d \in DimSet :
          gaps[d] > 0 => gaps[d] + profile_vector[d] = TIER_PROFILES["advanced"][d]

\* a profile matched as advanced keeps a positive gap
C5_Witness ==
  /\ pc = "summary"
  /\ tier = "advanced"
  /\ next_tier = "advanced"
  /\ \E d \in DimSet : gaps[d] > 0

DimIndex(d) == CHOOSE i \in 1..Len(Dims) : Dims[i] = d

\* the i-th dimension of the set S in dimension order
NthDim(S, i) ==
  CHOOSE d \in S : Cardinality({e \in S : DimIndex(e) <= DimIndex(d)}) = i

HighDimSet == {d \in DimSet : gaps[d] > 8}

MediumDimSet == {d \in DimSet : gaps[d] >= 4 /\ gaps[d] <= 8}

BonusCount ==
  IF profile_vector["structure"] + profile_vector["documentation"]
       + profile_vector["tests"] + profile_vector["commits"]
       + profile_vector["dependencies"] > 80 THEN 3 ELSE 0

\* the entry at position i of the list built from the gaps and the profile
BuiltItem(i) ==
  LET h == Cardinality(HighDimSet)
      m == Cardinality(MediumDimSet)
  IN  IF i <= h THEN HighItem(NthDim(HighDimSet, i))
      ELSE IF i <= h + m THEN MediumItem(NthDim(MediumDimSet, i - h))
      ELSE AdvancedItems[i - h - m]

BuiltLen == Cardinality(HighDimSet) + Cardinality(MediumDimSet) + BonusCount

\* 1 for a high item, 2 for a medium item, 3 for a bonus item, 4 for the fallback
Band(item) ==
  IF \E d \in DimSet : item = HighItem(d) THEN 1
  ELSE IF \E d \in DimSet : item = MediumItem(d) THEN 2
  ELSE IF \E i \in 1..Len(AdvancedItems) : item = AdvancedItems[i] THEN 3
  ELSE 4

\* C6: _generate_roadmap returns the first at most 5 entries of the list of
\* the high items (gap > 8), then the medium items (gap in 4..8), both in
\* dimension order, then the three advanced recommendations if the profile
\* sum is above 80, and exactly the fallback if that list is empty; the
\* result has 1 to 5 entries, never a lower band before a higher one, and
\* the fallback only alone.
C6_RoadmapIsBoundedPrefix ==
  pc = "return" =>
    /\ Len(roadmap) = (IF BuiltLen = 0 THEN 1 ELSE Min(5, BuiltLen))
    /\ BuiltLen = 0 => roadmap = <<FallbackItem>>
    /\ BuiltLen > 0 => \A i \in 1..Len(roadmap) : roadmap[i] = BuiltItem(i)
    /\ Len(roadmap) >= 1 /\ Len(roadmap) <= 5
    /\ \A i, j \in 1..Len(roadmap) : i < j => Band(roadmap[i]) <= Band(roadmap[j])
    /\ (\E i \in 1..Len(roadmap) : roadmap[i] = FallbackItem) =>
          (Len(roadmap) = 1 /\ BuiltLen = 0)

\* a list of more than 5 entries with all three bands was cut to 5
C6_Witness ==
  /\ pc = "return"
  /\ BuiltLen > 5
  /\ Len(roadmap) = 5
  /\ Band(roadmap[1]) = 1
  /\ \E i \in 1..5 : Band(roadmap[i]) = 2
  /\ Band(roadmap[5]) = 3

\* C7: each of the five scores of get_all_signals is an integer in 0..20, the
\* profile vector has exactly the five dimension keys, and the total score
\* of a successful analyze() is the sum of the five profile values, in
\* 0..100.
C7_ScoresInRange ==
  /\ AfterSignals =>
        /\ DOMAIN signals = DimSet
        /\ \A d \in DimSet : signals[d][1] \in 0..20
  /\ (AfterSignals /\ pc # "profile") =>
        /\ DOMAIN profile_vector = DimSet
        /\ \A d \in DimSet : profile_vector[d] = signals[d][1]
  /\ result.status = "success" =>
        /\ result.profile = profile_vector
        /\ result.score = profile_vector["structure"] + profile_vector["documentation"]
                            + profile_vector["tests"] + profile_vector["commits"]
                            + profile_vector["dependencies"]
        /\ result.score \in 0..100

\* a successful analysis of commits whose every message counts twice
C7_Witness ==
  /\ result.status = "success"
  /\ Len(commits) > 0
  /\ \A i \in 1..Len(commits) : commits[i].message = DoubleMessage
  /\ profile_vector["commits"] = 20
  /\ result.score >= 20

PathSet == {file_tree[i].path : i \in 1..Len(file_tree)}

TestPaths == {p \in PathSet : Contains(Lower(p), "test")}

HasMarker(paths) ==
  \E p \in paths :
     \/ Contains(Lower(p), "coverage") \/ Contains(p, ".coveragerc")
     \/ Contains(p, "pytest.ini") \/ Contains(p, "jest.config") \/ Contains(p, "vitest")

HasUnit(paths) == \E p \in paths : Contains(Lower(p), "unit") \/ Contains(p, "_test")

HasIntegration(paths) ==
  \E p \in paths : Contains(Lower(p), "integration") \/ Contains(Lower(p), "e2e")

TestRules(unitPaths) ==
  IF TestPaths = {} THEN 0
  ELSE IF HasMarker(PathSet) THEN 18
  ELSE IF HasUnit(unitPaths) /\ HasIntegration(unitPaths) THEN 15
  ELSE IF Cardinality(TestPaths) > 5 THEN 12
  ELSE 6

\* C8 (as stated): signal_tests scores by the first matching rule: no path
\* contains "test" -> 0; a path of the full tree carries a coverage or
\* config marker -> 18; some path contains "unit" or "_test" and some path
\* contains "integration" or "e2e" -> 15; more than 5 paths contain "test"
\* -> 12; otherwise 6.
C8_TestsRulesOverAllPaths ==
  pc = "profile" => signals["tests"][1] = TestRules(PathSet)

\* C8 (amended): as stated, but rule 3 looks only at the paths that contain
\* "test": some such path contains "unit" or "_test" and some such path
\* contains "integration" or "e2e"; a marker never yields 18 when no path
\* contains "test".
C8_TestsRulesOverTestPaths ==
  pc = "profile" =>
    /\ signals["tests"][1] = TestRules(TestPaths)
    /\ signals["tests"][1] \in {0, 6, 12, 15, 18}
    /\ TestPaths = {} => signals["tests"][1] = 0

\* unit and integration paths among the test paths, no marker: rule 3
C8_Witness ==
  /\ pc = "profile"
  /\ signals["tests"][1] = 15
  /\ "unit/e2e.py" \in PathSet
  /\ Cardinality(TestPaths) > 5

InspectedIdx == 1..Min(50, Len(commits))

\* C9: signal_commits scores 0 for the empty list and otherwise
\* min(20, floor(20 * (conventional + descriptive) / N)), the two counts
\* taken over the first 50 commits and N the length of the full list; ten
\* commits starting with "feat:" score 20 and no score exceeds 20.
C9_CommitsScore ==
  pc = "profile" =>
    LET conv == Cardinality({i \in InspectedIdx : IsConventional(Lower(commits[i].message))})
        desc == Cardinality({i \in InspectedIdx : IsDescriptive(Lower(commits[i].message))})
    IN  /\ signals["commits"][1] =
             IF Len(commits) = 0 THEN 0
             ELSE Min(20, (20 * (conv + desc)) \div Len(commits))
        /\ signals["commits"][1] <= 20
        /\ (Len(commits) = 10
              /\ \A i \in 1..10 : StartsWith(commits[i].message, "feat:"))
             => signals["commits"][1] = 20

\* more than 50 commits, every inspected one counted once, the rest not
C9_Witness ==
  /\ pc = "profile"
  /\ Len(commits) = 53
  /\ \A i \in 1..50 : commits[i].message = "feat: add login"
  /\ \A i \in 51..53 : commits[i].message = "wip"
  /\ signals["commits"][1] = 18

FolderSet == ExtractFolders(file_tree)

GoodCount == Cardinality({f \in FolderSet : Lower(f) \in GoodKeywords})

BadCount == Cardinality({f \in FolderSet : Lower(f) \in BadKeywords})

\* C10: signal_structure scores by the first matching rule: no folders -> 5;
\* more bad than good folders -> 8; at least 3 good folders -> 18; at least
\* 1 good folder -> 12; otherwise 5; so three good folders outnumbered by
\* bad folders score 8.
C10_StructureRules ==
  pc = "profile" =>
    /\ signals["structure"][1] \in {5, 8, 12, 18}
    /\ FolderSet = {} => signals["structure"][1] = 5
    /\ (FolderSet # {} /\ BadCount > GoodCount) => signals["structure"][1] = 8
    /\ (FolderSet # {} /\ BadCount <= GoodCount /\ GoodCount >= 3)
          => signals["structure"][1] = 18
    /\ (FolderSet # {} /\ BadCount <= GoodCount /\ GoodCount \in {1, 2})
          => signals["structure"][1] = 12
    /\ (FolderSet # {} /\ BadCount <= GoodCount /\ GoodCount = 0)
          => signals["structure"][1] = 5

\* three good folders outnumbered by four bad ones
C10_Witness ==
  /\ pc = "profile"
  /\ GoodCount = 3
  /\ BadCount = 4
  /\ signals["structure"][1] = 8

\* the profile k * p
Scaled(p, k) == [d \in DimSet |-> k * p[d]]

\* the factors k for which k * p stays within 0..20 in every dimension
ScaleFactors(p) == {k \in 1..MaxScore : \A d \in DimSet : k * p[d] <= MaxScore}

\* C11: match_tier returns the same tier name for a profile p and for k * p,
\* for every positive integer k such that both have all five dimensions in
\* 0..20.
C11_MatchTierScaleInvariant ==
  pc = "gaps" =>
    \A k \in ScaleFactors(profile_vector) :
       MatchTier(Scaled(profile_vector, k)).best_tier = tier

\* a profile with five equal positive scores was matched, and its double
\* matches the same tier
C11_Witness ==
  /\ pc = "gaps"
  /\ profile_vector["structure"] > 0
  /\ \A d \in DimSet : profile_vector[d] = profile_vector["structure"]
  /\ 2 \in ScaleFactors(profile_vector)
  /\ tier = "advanced"
  /\ MatchTier(Scaled(profile_vector, 2)).best_tier = "advanced"

\* the dimension of S with the highest score, the first of them in dimension order
Highest(S) ==
  CHOOSE d \in S : \A e \in S \ {d} :
     \/ profile_vector[d] > profile_vector[e]
     \/ profile_vector[d] = profile_vector[e] /\ DimIndex(d) < DimIndex(e)

\* the dimension of S with the lowest score, the first of them in dimension order
Lowest(S) ==
  CHOOSE d \in S : \A e \in S \ {d} :
     \/ profile_vector[d] < profile_vector[e]
     \/ profile_vector[d] = profile_vector[e] /\ DimIndex(d) < DimIndex(e)

\* C12: the strengths of analyze() are the 2 dimensions with the highest
\* scores and the weaknesses the 2 with the lowest scores, equal scores taken
\* in the order structure, documentation, tests, commits, dependencies, and
\* the summary sentence names exactly these dimensions in that order.
C12_StrengthsAndWeaknesses ==
  (pc = "done" /\ result.status = "success") =>
    LET s1 == Highest(DimSet)
        s2 == Highest(DimSet \ {s1})
        w1 == Lowest(DimSet)
        w2 == Lowest(DimSet \ {w1})
    IN  /\ result.strengths = <<s1, s2>>
        /\ result.weaknesses = <<w1, w2>>
        /\ result.summary =
             "Strong in " \o DisplayNames[s1] \o ", " \o DisplayNames[s2]
               \o ". Needs improvement in " \o DisplayNames[w1] \o ", "
               \o DisplayNames[w2] \o "."

\* the advanced reference, four equal highest scores, was summarised
C12_Witness ==
  /\ pc = "done"
  /\ profile_vector = TIER_PROFILES["advanced"]
  /\ result.strengths = <<"structure", "documentation">>
  /\ result.weaknesses = <<"commits", "structure">>
  /\ result.summary = "Strong in Project Structure, Documentation. Needs improvement in Commit Quality, Project Structure."

====
